---- MODULE Spec2Model ----
(***************************************************************************)
(* Model of server.py: the sysfs GPIO driver, the network interface        *)
(* configurator, the supervised helper processes, the Device1 variant,     *)
(* the module start-up sequence and the HTTP routes.                       *)
(*                                                                         *)
(* The specifications share the variables:                                 *)
(*   Spec       the whole program: start-up, then the request handlers     *)
(*              running on one cooperative event loop;                     *)
(*   SpecFair   Spec with the event loop's wake-ups taken eventually;      *)
(*   SpecDevice start-up and the power routes under every polarity;        *)
(*   SpecFlash  start-up and the firmware staging route;                   *)
(*   SpecBase   the operations of the base class Device;                   *)
(*   SpecGpio   the three GPIO driver functions applied in any order to    *)
(*              any line of an arbitrary sysfs state;                      *)
(*   SpecIface  iface_set_static_ip applied repeatedly to one interface.   *)
(***************************************************************************)
EXTENDS Integers, Sequences, FiniteSets, TLC

VARIABLES
    export_file,          \* /sys/class/gpio/export exists
    gpio,                 \* sysfs state of every line: exported, direction, active_low, level
    fault,                \* hardware condition of every line
    if_present,           \* the interface exists
    addrs,                \* addresses on the interface
    privileged,           \* the process may change the network configuration
    power_gpio_inverted,  \* Device1.power_gpio_inverted
    reset_gpio_inverted,  \* Device1.reset_gpio_inverted
    pc,                   \* position of the start-up sequence
    device_init_failed,   \* module variable of the same name
    prepareCalls,         \* results of the device.prepare() calls made so far
    iface_set_ip_result,  \* module variable of the same name
    ser2net,              \* outcome of ser2net_start
    dnsmasq_tftp,         \* outcome of dnsmasq_tftp_start
    tftp_instance,        \* devices["device1"].tftp_instance
    staging,              \* files of the boot server's directory
    tasks,                \* coroutines suspended in a sleep
    trace,                \* GPIO writes and suspensions of the device operations, in order
    last,                 \* the most recent call and its outcome
    prev                  \* the call before it (driver and configurator specifications)

vars == <<export_file, gpio, fault, if_present, addrs, privileged,
          power_gpio_inverted, reset_gpio_inverted, pc, device_init_failed,
          prepareCalls, iface_set_ip_result, ser2net, dnsmasq_tftp,
          tftp_instance, staging, tasks, trace, last, prev>>

osGpioVars == <<export_file, gpio, fault>>
osNetVars  == <<if_present, addrs, privileged>>
configVars == <<power_gpio_inverted, reset_gpio_inverted>>
startVars  == <<pc, device_init_failed, prepareCalls, iface_set_ip_result,
                ser2net, dnsmasq_tftp, tftp_instance>>

----------------------------------------------------------------------------
(* Bounds *)

MaxTrace == 4       \* entries of trace that new requests may fill
MaxTasks == 2       \* coroutines suspended at the same time

----------------------------------------------------------------------------
(* Static configuration *)

PowerGpio == 539
ResetGpio == 529
Lines == {PowerGpio, ResetGpio}
DeviceNames == {"device1"}
RequestNames == {"device1", "nodevice"}
Iface == "eth0"
StaticIp == "192.168.0.66"
TftpFilename == "wr1043v3_tp_recovery.bin"
Addresses == {StaticIp, "192.168.0.67", "10.0.0.1"}
Urls == {"good", "bad"}
TftpDir == "tftp-dir"

----------------------------------------------------------------------------
(* result.Ok / result.Err, and an exception leaving the function *)

Ok(v) == <<"Ok", v>>
Err(m) == <<"Err", m>>
Raise(e) == <<"Raise", e>>
is_ok(r) == r[1] = "Ok"
is_err(r) == r[1] = "Err"
is_raise(r) == r[1] = "Raise"
None == "None"
Unset == <<"Unset", None>>
Suspended == <<"Suspended", None>>
NoCall == [op |-> "none", arg |-> <<>>, res |-> Ok(None), http |-> <<0, None>>]

----------------------------------------------------------------------------
(* The sysfs GPIO interface as the kernel implements it *)

Xor(a, b) == (a + b) % 2

Unexported == [exported |-> FALSE, direction |-> "in", active_low |-> 0, level |-> 0]
\* "garbled": the value file holds text that is not a number
Faults == {"ok", "dir_stuck", "pin_high", "garbled"}

\* export accepts the decimal line number only; anything else is EINVAL
ExportStore(g, line, content) ==
    IF content = <<"number", line>>
    THEN [ok |-> TRUE, g |-> [g EXCEPT ![line] = [Unexported EXCEPT !.exported = TRUE,
                                                                     !.level = g[line].level]]]
    ELSE [ok |-> FALSE, g |-> g]

\* "out" drives the line low; a line that cannot be switched keeps its direction
DirectionStore(g, f, line) ==
    IF f[line] = "dir_stuck" THEN g
    ELSE [g EXCEPT ![line].direction = "out", ![line].level = 0]

ActiveLowStore(g, line, flag) == [g EXCEPT ![line].active_low = flag]

\* the value file shows the pin level xor active_low, as text
IntToText(n) == IF n = 0 THEN "0" ELSE IF n = 1 THEN "1" ELSE "?"
ValueShow(g, f, line) ==
    LET raw == IF f[line] = "pin_high" THEN 1 ELSE g[line].level
    IN IF f[line] = "garbled" THEN "" ELSE IntToText(Xor(raw, g[line].active_low))

\* a write to the value file of an output line sets the pin to value xor active_low
ValueStore(g, line, value) == [g EXCEPT ![line].level = Xor(value, g[line].active_low)]

\* int(text): the integer, or -1 standing for ValueError
ParseInt(text) == IF text = "0" THEN 0 ELSE IF text = "1" THEN 1 ELSE -1

----------------------------------------------------------------------------
(* The GPIO driver.  Each function yields its result and the sysfs state   *)
(* it leaves.                                                              *)

BoolToFlag(b) == IF b THEN 1 ELSE 0

\* the text gpio_prepare_output writes to the export file
ExportContent(line) == <<"path", line>>

\* variant: the value readback after the active_low write is not compared
gpio_prepare_output_unverified(g, f, exp, line, active_low, gpio_name) ==
    IF ~exp THEN [res |-> Err(<<"GPIO export file not found">>), g |-> g]
    ELSE
    LET ex == IF g[line].exported THEN [ok |-> TRUE, g |-> g]
              ELSE ExportStore(g, line, ExportContent(line))
    IN IF ~ex.ok THEN [res |-> Raise("OSError"), g |-> ex.g]
       ELSE IF ~ex.g[line].exported
       THEN [res |-> Err(<<gpio_name, line, "could not be exported">>), g |-> ex.g]
       ELSE
       LET g1 == DirectionStore(ex.g, f, line)
       IN IF g1[line].direction # "out"
          THEN [res |-> Err(<<gpio_name, line, "could not be set to output mode">>), g |-> g1]
          ELSE [res |-> Ok(None), g |-> ActiveLowStore(g1, line, BoolToFlag(active_low))]

gpio_prepare_output(g, f, exp, line, active_low, gpio_name) ==
    IF ~exp THEN [res |-> Err(<<"GPIO export file not found">>), g |-> g]
    ELSE
    LET ex == IF g[line].exported THEN [ok |-> TRUE, g |-> g]
              ELSE ExportStore(g, line, ExportContent(line))
    IN IF ~ex.ok THEN [res |-> Raise("OSError"), g |-> ex.g]
       ELSE IF ~ex.g[line].exported
       THEN [res |-> Err(<<gpio_name, line, "could not be exported">>), g |-> ex.g]
       ELSE
       LET g1 == DirectionStore(ex.g, f, line)
       IN IF g1[line].direction # "out"
          THEN [res |-> Err(<<gpio_name, line, "could not be set to output mode">>), g |-> g1]
          ELSE
          LET content == IntToText(BoolToFlag(active_low))
              g2 == ActiveLowStore(g1, line, BoolToFlag(active_low))
          IN IF ValueShow(g2, f, line) # content
             THEN [res |-> Err(<<gpio_name, line, "active_low could not be set">>), g |-> g2]
             ELSE [res |-> Ok(None), g |-> g2]

\* w is the write that reached the value file, if any
gpio_set_value(g, line, value) ==
    IF ~g[line].exported
    THEN [res |-> Err(<<"GPIO not exported", line>>), g |-> g, w |-> <<>>]
    ELSE IF g[line].direction # "out"
    THEN [res |-> Raise("PermissionError"), g |-> g, w |-> <<>>]
    ELSE [res |-> Ok(None), g |-> ValueStore(g, line, value), w |-> <<line, value>>]

gpio_get_value(g, f, line) ==
    IF ~g[line].exported THEN Err(<<"GPIO not exported", line>>)
    ELSE LET n == ParseInt(ValueShow(g, f, line))
         IN IF n = -1 THEN Raise("ValueError") ELSE Ok(n)

----------------------------------------------------------------------------
(* The network interface configurator.  keep is what flush_addr leaves on  *)
(* the interface, added whether addr('add') takes effect, exc the          *)
(* exception an unprivileged netlink request ends in.                      *)

NetExceptions == {"PermissionError", "NetlinkError"}

\* variant: the address list is not re-read after the flush
iface_set_static_ip_noflushcheck(a, present, priv, interface, ip_address, keep, added, exc) ==
    IF ~present THEN [res |-> Err(<<"Iface not found", interface>>), a |-> a]
    ELSE IF ~priv
    THEN [res |-> IF exc = "PermissionError"
                  THEN Err(<<"Root rights are necessary", interface>>)
                  ELSE Raise(exc),
          a |-> a]
    ELSE
    LET a1 == a \cap keep
        a2 == IF added THEN a1 \cup {ip_address} ELSE a1
    IN IF ip_address \in a2
       THEN [res |-> Ok(None), a |-> a2]
       ELSE [res |-> Err(<<"address was not there afterwards", ip_address, interface>>), a |-> a2]

iface_set_static_ip(a, present, priv, interface, ip_address, keep, added, exc) ==
    IF ~present THEN [res |-> Err(<<"Iface not found", interface>>), a |-> a]
    ELSE IF ~priv
    THEN [res |-> IF exc = "PermissionError"
                  THEN Err(<<"Root rights are necessary", interface>>)
                  ELSE Raise(exc),
          a |-> a]
    ELSE
    LET a1 == a \cap keep
    IN IF Cardinality(a1) > 0
       THEN [res |-> Err(<<"Failed to flush", interface>>), a |-> a1]
       ELSE
       LET a2 == IF added THEN a1 \cup {ip_address} ELSE a1
       IN IF ip_address \in a2
          THEN [res |-> Ok(None), a |-> a2]
          ELSE [res |-> Err(<<"address was not there afterwards", ip_address, interface>>), a |-> a2]

----------------------------------------------------------------------------
(* The supervised helper processes.  which and usr_sbin say where the      *)
(* ser2net binary is, found whether dnsmasq can be executed, early         *)
(* whether the child exits within the 0.5 s wait.                          *)

ser2net_cmd(which, usr_sbin) ==
    IF ~which /\ ~usr_sbin THEN Err(<<"ser2net binary not found">>)
    ELSE Ok(<<"ser2net", "-d", "-n">>)

\* cmd[0] where cmd is a result.Ok: the class has no __getitem__
OkSubscript(cmd) == Raise("TypeError")

ser2net_start(which, usr_sbin, early) ==
    LET cmd == ser2net_cmd(which, usr_sbin)
    IN IF is_err(cmd) THEN Raise("TypeError")
       ELSE IF early
       THEN LET id == OkSubscript(cmd)
            IN IF is_raise(id) THEN id ELSE Err(<<"ser2net exited immediately", id>>)
       ELSE Ok("ser2net-child")

dnsmasq_tftp_command(interface, tmp_dir) == <<"dnsmasq", interface, tmp_dir>>

dnsmasq_tftp_start(interface, found, early) ==
    LET cmd == dnsmasq_tftp_command(interface, TftpDir)
    IN IF ~found THEN Raise("FileNotFoundError")
       ELSE IF early THEN Err(<<"dnsmasq exited immediately", interface>>)
       ELSE Ok([process |-> "dnsmasq-child", tftp_dir |-> TftpDir, iface |-> interface])

----------------------------------------------------------------------------
(* Firmware staging *)

download_file(url) ==
    IF url = "good" THEN Ok("image")
    ELSE IF url = "good2" THEN Ok("image2")
    ELSE Err(<<"download failed", url>>)

\* variant: the file is opened but the content is not written
tftp_provide_file_nowrite(st, tftp_dir, filename, content) ==
    [res |-> Ok(None), st |-> st]

tftp_provide_file(st, tftp_dir, filename, content) ==
    [res |-> Ok(None), st |-> [st EXCEPT ![filename] = content]]

----------------------------------------------------------------------------
(* Device1 *)

\* variant: the two polarity flags are handed to the wrong lines
Device1_prepare_swapped(g, f, exp, pinv, rinv) ==
    LET p == gpio_prepare_output(g, f, exp, PowerGpio, rinv, "Power")
    IN IF ~is_ok(p.res) THEN p
       ELSE gpio_prepare_output(p.g, f, exp, ResetGpio, pinv, "Reset")

Device1_prepare(g, f, exp, pinv, rinv) ==
    LET p == gpio_prepare_output(g, f, exp, PowerGpio, pinv, "Power")
    IN IF ~is_ok(p.res) THEN p
       ELSE gpio_prepare_output(p.g, f, exp, ResetGpio, rinv, "Reset")

\* Result.map
ResultMapEqOne(r) == IF is_ok(r) THEN Ok(r[2] = 1) ELSE r

is_powered_on(g, f) == ResultMapEqOne(gpio_get_value(g, f, PowerGpio))
\* variant: power_off drives the reset line
power_off_reset_line(g) == gpio_set_value(g, ResetGpio, 0)
power_off(g) == gpio_set_value(g, PowerGpio, 0)
\* variant: power_on writes the value of power_off
power_on_writes_zero(g) == gpio_set_value(g, PowerGpio, 0)
power_on(g) == gpio_set_value(g, PowerGpio, 1)
reset_button_push(g) == gpio_set_value(g, ResetGpio, 1)
\* variant: release writes the value of push
reset_button_release_high(g) == gpio_set_value(g, ResetGpio, 1)
reset_button_release(g) == gpio_set_value(g, ResetGpio, 0)

\* variant: the result of power_off is not looked at
power_cycle_begin_unchecked(g) ==
    LET power_off_result == power_off(g)
    IN [res |-> power_off_result.res, g |-> power_off_result.g, w |-> power_off_result.w,
        sleep |-> TRUE]

\* Device1.power_cycle up to the sleep; sleep says whether the coroutine goes on
power_cycle_begin(g) ==
    LET power_off_result == power_off(g)
    IN [res |-> power_off_result.res, g |-> power_off_result.g, w |-> power_off_result.w,
        sleep |-> ~is_err(power_off_result.res) /\ ~is_raise(power_off_result.res)]

\* variant: the cycle ends with a second power_off
power_cycle_end_off(g) == power_off(g)

\* Device1.power_cycle after the sleep
power_cycle_end(g) == power_on(g)

\* reset_pulse(duration): assert reset, suspend, release reset; a failing
\* assert is returned and nothing is released
reset_pulse_begin(g) ==
    LET push_result == reset_button_push(g)
    IN [res |-> push_result.res, g |-> push_result.g, w |-> push_result.w,
        sleep |-> is_ok(push_result.res)]

reset_pulse_end(g) == reset_button_release(g)

----------------------------------------------------------------------------
(* Start-up: module level code, then the __main__ block *)

InitLineStates ==
    { Unexported,
      [Unexported EXCEPT !.exported = TRUE],
      [exported |-> TRUE, direction |-> "out", active_low |-> 1, level |-> 1] }
InitAddrs == { {}, {"10.0.0.1"}, {StaticIp, "10.0.0.1"} }

InitProgram ==
    /\ device_init_failed = FALSE
    /\ prepareCalls = <<>>
    /\ iface_set_ip_result = Unset
    /\ ser2net = Unset
    /\ dnsmasq_tftp = Unset
    /\ tftp_instance = Unset
    /\ staging = [n \in {TftpFilename} |-> "absent"]
    /\ tasks = [i \in 1..MaxTasks |-> "idle"]
    /\ trace = <<>>
    /\ last = NoCall
    /\ prev = NoCall

InitHost ==
    /\ export_file \in BOOLEAN
    /\ gpio \in [Lines -> InitLineStates]
    /\ fault \in [Lines -> Faults]
    /\ if_present \in BOOLEAN
    /\ addrs \in InitAddrs
    /\ privileged \in BOOLEAN

\* devices["device1"] as lines 252-259 configure it
Init ==
    /\ InitHost
    /\ power_gpio_inverted = TRUE
    /\ reset_gpio_inverted = TRUE
    /\ pc = "prepare"
    /\ InitProgram

\* a Device1 with any of the four polarity configurations
InitDevice ==
    /\ InitHost
    /\ power_gpio_inverted \in BOOLEAN
    /\ reset_gpio_inverted \in BOOLEAN
    /\ pc = "prepare"
    /\ InitProgram

\* variant: the exit after the prepare loop is missing
PrepareLoopNoExit(failed) == "iface"

\* lines 267-268
PrepareLoopExit(failed) == IF failed THEN "exited" ELSE "iface"

\* lines 273-275, 380-382, 388-390: a start-up step's result decides whether
\* start-up goes on; an exception ends the process as well
ExitIfErr(res, next) ==
    IF is_err(res) THEN "exited" ELSE IF is_raise(res) THEN "crashed" ELSE next

\* lines 261-268: the prepare loop over the registry and the exit that follows
StartupPrepare ==
    /\ pc = "prepare"
    /\ LET r1 == Device1_prepare(gpio, fault, export_file, power_gpio_inverted, reset_gpio_inverted)
           r2 == Device1_prepare(r1.g, fault, export_file, power_gpio_inverted, reset_gpio_inverted)
       IN IF is_raise(r1.res)
          THEN /\ prepareCalls' = <<r1.res>>
               /\ gpio' = r1.g
               /\ pc' = "crashed"
               /\ UNCHANGED device_init_failed
          ELSE IF is_err(r1.res)
          THEN /\ prepareCalls' = <<r1.res, r2.res>>
               /\ gpio' = r2.g
               /\ pc' = IF is_err(r2.res) THEN PrepareLoopExit(TRUE) ELSE "crashed"
               /\ device_init_failed' = is_err(r2.res)
          ELSE /\ prepareCalls' = <<r1.res>>
               /\ gpio' = r1.g
               /\ pc' = PrepareLoopExit(device_init_failed)
               /\ UNCHANGED device_init_failed
    /\ UNCHANGED <<export_file, fault, osNetVars, configVars, iface_set_ip_result,
                   ser2net, dnsmasq_tftp, tftp_instance, staging, tasks, trace, last, prev>>

\* lines 270-275
StartupIface ==
    /\ pc = "iface"
    /\ \E keep \in SUBSET addrs, added \in BOOLEAN, exc \in NetExceptions :
          LET r == iface_set_static_ip(addrs, if_present, privileged, Iface, StaticIp, keep, added, exc)
          IN /\ addrs' = r.a
             /\ iface_set_ip_result' = IF is_raise(r.res) THEN iface_set_ip_result ELSE r.res
             /\ pc' = ExitIfErr(r.res, "main")
    /\ UNCHANGED <<osGpioVars, if_present, privileged, configVars, device_init_failed,
                   prepareCalls, ser2net, dnsmasq_tftp, tftp_instance, staging, tasks,
                   trace, last, prev>>

ArgvKinds == {"ok", "wrong_count", "bad_int"}

\* lines 369-385
StartupSer2net ==
    /\ pc = "main"
    /\ \E argv \in ArgvKinds, which \in BOOLEAN, usr_sbin \in BOOLEAN, early \in BOOLEAN :
          IF argv = "wrong_count" THEN pc' = "exited" /\ UNCHANGED ser2net
          ELSE IF argv = "bad_int" THEN pc' = "crashed" /\ UNCHANGED ser2net
          ELSE LET r == ser2net_start(which, usr_sbin, early)
               IN /\ ser2net' = r
                  /\ pc' = ExitIfErr(r, "dnsmasq")
    /\ UNCHANGED <<osGpioVars, osNetVars, configVars, device_init_failed, prepareCalls,
                   iface_set_ip_result, dnsmasq_tftp, tftp_instance, staging, tasks,
                   trace, last, prev>>

\* lines 387-395
StartupDnsmasq ==
    /\ pc = "dnsmasq"
    /\ \E found \in BOOLEAN, early \in BOOLEAN :
          LET r == dnsmasq_tftp_start(Iface, found, early)
          IN /\ dnsmasq_tftp' = r
             /\ tftp_instance' = IF is_ok(r) THEN r ELSE tftp_instance
             /\ pc' = ExitIfErr(r, "run")
    /\ UNCHANGED <<osGpioVars, osNetVars, configVars, device_init_failed, prepareCalls,
                   iface_set_ip_result, ser2net, staging, tasks, trace, last, prev>>

\* lines 397-401: uvicorn.run
StartupServe ==
    /\ pc = "run"
    /\ pc' = "serving"
    /\ UNCHANGED <<osGpioVars, osNetVars, configVars, device_init_failed, prepareCalls,
                   iface_set_ip_result, ser2net, dnsmasq_tftp, tftp_instance, staging,
                   tasks, trace, last, prev>>

----------------------------------------------------------------------------
(* The HTTP routes.  A handler runs from its first line to its return, or  *)
(* to its first sleep, without any other coroutine running in between.     *)

\* variant: a lookup that falls back to the only device
DevicesGetDefault(name) == "device1"

\* devices.get(device_name)
DevicesGet(name) == IF name \in DeviceNames THEN name ELSE None

NotFound == <<404, "Device not found">>

\* the handler's return value, or the HTTPException it raises; an exception
\* of another kind leaves the handler and the server answers 500
HttpOf(res, body) ==
    IF is_ok(res) THEN <<200, body>>
    ELSE IF is_err(res) THEN <<500, res[2]>>
    ELSE <<500, "Internal Server Error">>

Call(op, name, res, http) == [op |-> op, arg |-> name, res |-> res, http |-> http]
NotCalled == <<"NotCalled", None>>

Pending == Cardinality({i \in 1..MaxTasks : tasks[i] # "idle"})
\* a request is admitted while the entries it appends at once fit; the single
\* write of a resuming coroutine is always admitted
Room(n) == Len(trace) + n <= MaxTrace
IdleTasks == {i \in 1..MaxTasks : tasks[i] = "idle"}
FirstIdle == CHOOSE i \in IdleTasks : \A j \in IdleTasks : i <= j

WriteEntry(op, w) == <<op, "write", w[1], w[2]>>
SleepEntry(op) == <<op, "sleep", 0, 0>>
Written(op, r) == IF r.w = <<>> THEN <<>> ELSE <<WriteEntry(op, r.w)>>

\* raise HTTPException(status_code=404, ...): no device operation is called
Respond404(op, name) ==
    /\ last' = Call(None, name, NotCalled, NotFound)
    /\ UNCHANGED <<gpio, staging, tasks, trace>>

\* variant: a per-device lock that turns requests away while a coroutine sleeps
WriteHandlerBusy(op, name, r) ==
    IF DevicesGet(name) = None THEN Respond404(op, name)
    ELSE IF Pending > 0
    THEN /\ last' = Call(op, name, Err(<<"device busy">>), <<500, <<"device busy">>>>)
         /\ UNCHANGED <<gpio, staging, tasks, trace>>
    ELSE /\ Room(1)
         /\ gpio' = r.g
         /\ trace' = trace \o Written(op, r)
         /\ last' = Call(op, name, r.res, HttpOf(r.res, "ok"))
         /\ UNCHANGED <<staging, tasks>>

\* a handler whose device operation is one gpio_set_value
WriteHandler(op, name, r) ==
    IF DevicesGet(name) = None THEN Respond404(op, name)
    ELSE /\ Room(1)
         /\ gpio' = r.g
         /\ trace' = trace \o Written(op, r)
         /\ last' = Call(op, name, r.res, HttpOf(r.res, "ok"))
         /\ UNCHANGED <<staging, tasks>>

ServingFrame == UNCHANGED <<export_file, fault, osNetVars, configVars, startVars, prev>>

list_devices ==
    /\ pc = "serving"
    /\ last' = Call("list", None, NotCalled, <<200, DeviceNames>>)
    /\ UNCHANGED <<gpio, staging, tasks, trace>>
    /\ ServingFrame

device_power(name) ==
    /\ pc = "serving"
    /\ IF DevicesGet(name) = None THEN Respond404("power", name)
       ELSE LET r == is_powered_on(gpio, fault)
            IN /\ last' = Call("power", name, r,
                               IF is_ok(r) THEN <<200, IF r[2] THEN "on" ELSE "off">>
                               ELSE HttpOf(r, None))
               /\ UNCHANGED <<gpio, staging, tasks, trace>>
    /\ ServingFrame

device_power_off(name) ==
    /\ pc = "serving"
    /\ WriteHandler("power_off", name, power_off(gpio))
    /\ ServingFrame

device_power_on(name) ==
    /\ pc = "serving"
    /\ WriteHandler("power_on", name, power_on(gpio))
    /\ ServingFrame

device_push_reset_button(name) ==
    /\ pc = "serving"
    /\ WriteHandler("reset_push", name, reset_button_push(gpio))
    /\ ServingFrame

device_release_reset_button(name) ==
    /\ pc = "serving"
    /\ WriteHandler("reset_release", name, reset_button_release(gpio))
    /\ ServingFrame

\* device_power_cycle and Device1.power_cycle up to the sleep (lines 318-323, 231-235)
device_power_cycle(name) ==
    /\ pc = "serving"
    /\ IF DevicesGet(name) = None THEN Respond404("power_cycle", name)
       ELSE /\ IdleTasks # {}
            /\ Room(2)
            /\ LET b == power_cycle_begin(gpio)
               IN /\ gpio' = b.g
                  /\ UNCHANGED staging
                  /\ IF ~b.sleep
                     THEN /\ last' = Call("power_cycle", name, b.res, HttpOf(b.res, "ok"))
                          /\ UNCHANGED <<tasks, trace>>
                     ELSE /\ tasks' = [tasks EXCEPT ![FirstIdle] = "power_cycle"]
                          /\ trace' = trace \o Written("power_cycle", b)
                                            \o <<SleepEntry("power_cycle")>>
                          /\ last' = Call("power_cycle", name, Suspended, <<0, None>>)
    /\ ServingFrame

\* variant: the wake-up of a sleeping power_cycle is lost
power_cycle_resume_lost(i) ==
    /\ pc = "serving"
    /\ tasks[i] = "power_cycle"
    /\ UNCHANGED vars

\* Device1.power_cycle after the sleep, and the handler's return (lines 237, 324-327)
power_cycle_resume(i) ==
    /\ pc = "serving"
    /\ tasks[i] = "power_cycle"
    /\ LET r == power_cycle_end(gpio)
       IN /\ gpio' = r.g
          /\ trace' = trace \o Written("power_cycle", r)
          /\ last' = Call("power_cycle", "device1", r.res, HttpOf(r.res, "ok"))
    /\ tasks' = [tasks EXCEPT ![i] = "idle"]
    /\ UNCHANGED staging
    /\ ServingFrame

\* reset_pulse(duration) up to the sleep: assert reset, then suspend
device_reset_pulse(name) ==
    /\ pc = "serving"
    /\ IF DevicesGet(name) = None THEN Respond404("reset_pulse", name)
       ELSE /\ IdleTasks # {}
            /\ Room(2)
            /\ LET b == reset_pulse_begin(gpio)
               IN /\ gpio' = b.g
                  /\ UNCHANGED staging
                  /\ IF ~b.sleep
                     THEN /\ last' = Call("reset_pulse", name, b.res, HttpOf(b.res, "ok"))
                          /\ UNCHANGED <<tasks, trace>>
                     ELSE /\ tasks' = [tasks EXCEPT ![FirstIdle] = "reset_pulse"]
                          /\ trace' = trace \o Written("reset_pulse", b)
                                            \o <<SleepEntry("reset_pulse")>>
                          /\ last' = Call("reset_pulse", name, Suspended, <<0, None>>)
    /\ ServingFrame

\* reset_pulse(duration) after the sleep: release reset
reset_pulse_resume(i) ==
    /\ pc = "serving"
    /\ tasks[i] = "reset_pulse"
    /\ LET r == reset_pulse_end(gpio)
       IN /\ gpio' = r.g
          /\ trace' = trace \o Written("reset_pulse", r)
          /\ last' = Call("reset_pulse", "device1", r.res, HttpOf(r.res, "ok"))
    /\ tasks' = [tasks EXCEPT ![i] = "idle"]
    /\ UNCHANGED staging
    /\ ServingFrame

device_flash(name, from_url) ==
    /\ pc = "serving"
    /\ IF DevicesGet(name) = None THEN Respond404("tftp_file", name)
       ELSE LET download_result == download_file(from_url)
            IN IF is_err(download_result)
               THEN /\ last' = Call("tftp_file", name, download_result, HttpOf(download_result, "ok"))
                    /\ UNCHANGED <<gpio, staging, tasks, trace>>
               ELSE LET p == tftp_provide_file(staging, tftp_instance[2].tftp_dir,
                                               TftpFilename, download_result[2])
                    IN /\ staging' = p.st
                       /\ last' = Call("tftp_file", name, p.res, HttpOf(p.res, "ok"))
                       /\ UNCHANGED <<gpio, tasks, trace>>
    /\ ServingFrame

\* another process with access to sysfs unexports a line
EnvUnexport(line) ==
    /\ pc = "serving"
    /\ gpio[line].exported
    /\ gpio' = [gpio EXCEPT ![line].exported = FALSE]
    /\ last' = Call("unexport", line, NotCalled, <<0, None>>)
    /\ UNCHANGED <<staging, tasks, trace>>
    /\ ServingFrame

Next ==
    \/ StartupPrepare
    \/ StartupIface
    \/ StartupSer2net
    \/ StartupDnsmasq
    \/ StartupServe
    \/ list_devices
    \/ \E name \in RequestNames : device_power(name)
    \/ \E name \in RequestNames : device_power_off(name)
    \/ \E name \in RequestNames : device_power_on(name)
    \/ \E name \in RequestNames : device_power_cycle(name)
    \/ \E i \in 1..MaxTasks : power_cycle_resume(i)
    \/ \E name \in RequestNames : device_push_reset_button(name)
    \/ \E name \in RequestNames : device_release_reset_button(name)
    \/ \E name \in RequestNames : device_reset_pulse(name)
    \/ \E i \in 1..MaxTasks : reset_pulse_resume(i)
    \/ \E name \in RequestNames, from_url \in Urls : device_flash(name, from_url)
    \/ \E line \in Lines : EnvUnexport(line)

Spec == Init /\ [][Next]_vars

\* The event loop runs until the process ends and wakes every coroutine whose
\* asyncio.sleep(1) has elapsed: a wake-up that stays due is eventually taken.
Fairness ==
    \A i \in 1..MaxTasks :
        /\ WF_vars(power_cycle_resume(i))
        /\ WF_vars(reset_pulse_resume(i))

SpecFair == Init /\ [][Next]_vars /\ Fairness

\* Device1 under every polarity configuration: start-up, then the power routes
NextDevice ==
    \/ StartupPrepare
    \/ StartupIface
    \/ StartupSer2net
    \/ StartupDnsmasq
    \/ StartupServe
    \/ \E name \in RequestNames : device_power(name)
    \/ \E name \in RequestNames : device_power_off(name)
    \/ \E name \in RequestNames : device_power_on(name)
    \/ \E name \in RequestNames : device_power_cycle(name)
    \/ \E i \in 1..MaxTasks : power_cycle_resume(i)

SpecDevice == InitDevice /\ [][NextDevice]_vars

----------------------------------------------------------------------------
(* The GPIO driver on its own: the three functions called in any order on  *)
(* any line, from any sysfs state.                                         *)

InitGpio ==
    /\ export_file \in BOOLEAN
    /\ gpio \in [Lines -> InitLineStates]
    /\ fault \in [Lines -> Faults]
    /\ if_present = TRUE
    /\ addrs = {}
    /\ privileged = TRUE
    /\ power_gpio_inverted = TRUE
    /\ reset_gpio_inverted = TRUE
    /\ pc = "driver"
    /\ InitProgram

DriverFrame ==
    UNCHANGED <<export_file, fault, osNetVars, configVars, startVars, staging, tasks, trace>>

GpioPrepareOutput(line, active_low) ==
    /\ pc = "driver"
    /\ LET r == gpio_prepare_output(gpio, fault, export_file, line, active_low, "Line")
       IN /\ gpio' = r.g
          /\ last' = Call("gpio_prepare_output", <<line, BoolToFlag(active_low)>>, r.res, <<0, None>>)
    /\ prev' = last
    /\ DriverFrame

GpioSetValue(line, value) ==
    /\ pc = "driver"
    /\ LET r == gpio_set_value(gpio, line, value)
       IN /\ gpio' = r.g
          /\ last' = Call("gpio_set_value", <<line, value>>, r.res, <<0, None>>)
    /\ prev' = last
    /\ DriverFrame

GpioGetValue(line) ==
    /\ pc = "driver"
    /\ gpio' = gpio
    /\ last' = Call("gpio_get_value", <<line, 0>>, gpio_get_value(gpio, fault, line), <<0, None>>)
    /\ prev' = last
    /\ DriverFrame

NextGpio ==
    \/ \E line \in Lines, active_low \in BOOLEAN : GpioPrepareOutput(line, active_low)
    \/ \E line \in Lines, value \in {0, 1} : GpioSetValue(line, value)
    \/ \E line \in Lines : GpioGetValue(line)

SpecGpio == InitGpio /\ [][NextGpio]_vars

----------------------------------------------------------------------------
(* The interface configurator on its own: called again and again.          *)

InitIface ==
    /\ export_file = TRUE
    /\ gpio = [l \in Lines |-> Unexported]
    /\ fault = [l \in Lines |-> "ok"]
    /\ if_present \in BOOLEAN
    /\ addrs \in SUBSET Addresses
    /\ privileged \in BOOLEAN
    /\ power_gpio_inverted = TRUE
    /\ reset_gpio_inverted = TRUE
    /\ pc = "configurator"
    /\ InitProgram

IfaceSetStaticIp(ip_address) ==
    /\ pc = "configurator"
    /\ \E keep \in SUBSET addrs, added \in BOOLEAN, exc \in NetExceptions :
          LET r == iface_set_static_ip(addrs, if_present, privileged, Iface, ip_address,
                                       keep, added, exc)
          IN /\ addrs' = r.a
             /\ last' = Call("iface_set_static_ip", ip_address, r.res, <<0, None>>)
    /\ prev' = last
    /\ UNCHANGED <<osGpioVars, if_present, privileged, configVars, startVars, staging,
                   tasks, trace>>

NextIface == \E ip_address \in Addresses : IfaceSetStaticIp(ip_address)

SpecIface == InitIface /\ [][NextIface]_vars

----------------------------------------------------------------------------
(* The base Device on its own: a registry entry of the base class, reached *)
(* through the routes, over any sysfs state.                               *)

BaseOps == {"prepare", "is_powered_on", "power_off", "power_on", "power_cycle",
            "reset_button_push", "reset_button_release"}

\* every method of class Device
Device_method(op) == Err(<<"not implemented">>)

\* device_flash reads device.tftp_instance and device.tftp_filename, which
\* class Device does not have
Device_provision(content) == Raise("AttributeError")

InitBase ==
    /\ InitHost
    /\ power_gpio_inverted = TRUE
    /\ reset_gpio_inverted = TRUE
    /\ pc = "base"
    /\ InitProgram

BaseFrame ==
    UNCHANGED <<export_file, fault, osNetVars, configVars, startVars, staging, tasks,
                trace, prev>>

BaseCall(op) ==
    /\ pc = "base"
    /\ LET r == Device_method(op)
       IN last' = Call(op, "base", r, HttpOf(r, "ok"))
    /\ gpio' = gpio
    /\ BaseFrame

BaseFlash(from_url) ==
    /\ pc = "base"
    /\ LET download_result == download_file(from_url)
       IN IF is_err(download_result)
          THEN last' = Call("tftp_file", "base", download_result, HttpOf(download_result, "ok"))
          ELSE LET r == Device_provision(download_result[2])
               IN last' = Call("provision_firmware", "base", r, HttpOf(r, "ok"))
    /\ gpio' = gpio
    /\ BaseFrame

NextBase ==
    \/ \E op \in BaseOps : BaseCall(op)
    \/ \E from_url \in Urls : BaseFlash(from_url)

SpecBase == InitBase /\ [][NextBase]_vars

----------------------------------------------------------------------------
(* Firmware staging on its own: start-up, then tftp-file requests for      *)
(* several images.                                                         *)

FlashUrls == Urls \cup {"good2"}

NextFlash ==
    \/ StartupPrepare
    \/ StartupIface
    \/ StartupSer2net
    \/ StartupDnsmasq
    \/ StartupServe
    \/ \E name \in RequestNames, from_url \in FlashUrls : device_flash(name, from_url)

SpecFlash == Init /\ [][NextFlash]_vars

----------------------------------------------------------------------------
(* Properties *)

AllIdle == \A i \in 1..MaxTasks : tasks[i] = "idle"
UnknownNames == RequestNames \ DeviceNames
AssertedLevel(g, line) == Xor(1, g[line].active_low)
ResetWrites == SelectSeq(trace, LAMBDA e : e[2] = "write" /\ e[3] = ResetGpio)

\* C1: under every polarity configuration, a power query that directly
\* follows a successful power_on answers true, and one that directly follows
\* a successful power_off answers false.
C1_PowerReadback ==
    [][\A name \in DeviceNames :
          (device_power(name) /\ last.op \in {"power_on", "power_off"} /\ is_ok(last.res))
          => (is_ok(last'.res) /\ last'.res[2] = (last.op = "power_on"))]_vars

C1_Witness ==
    /\ last.op = "power"
    /\ is_ok(last.res)
    /\ last.res[2] = TRUE
    /\ ~power_gpio_inverted
    /\ trace # <<>>
    /\ trace[Len(trace)] = WriteEntry("power_on", <<PowerGpio, 1>>)

\* C2: when the power_off of a power_cycle fails, the call returns that
\* failure, no coroutine is left to call power_on, and nothing is written.
C2_CycleStopsOnFailedOff ==
    [][\A name \in DeviceNames :
          (device_power_cycle(name) /\ ~is_ok(power_off(gpio).res))
          => /\ last'.op = "power_cycle"
             /\ is_err(last'.res)
             /\ last'.res = power_off(gpio).res
             /\ last'.http[1] = 500
             /\ tasks' = tasks
             /\ trace' = trace
             /\ gpio' = gpio]_vars

C2_Witness ==
    /\ last.op = "power_cycle"
    /\ is_err(last.res)
    /\ ~gpio[PowerGpio].exported
    /\ AllIdle
    /\ \A k \in 1..Len(trace) : trace[k][1] # "power_cycle"

\* C3: power_on, power_off and one power_cycle, nothing else writing in
\* between, put 1, 0 and then 0, a suspension, 1 on the power line in that
\* order, and the cycle returns what its power_on returned.
StepsOf(t) == [k \in 1..Len(t) |-> <<t[k][1], t[k][2]>>]
CycleSteps ==
    << <<"power_on", "write">>, <<"power_off", "write">>, <<"power_cycle", "write">>,
       <<"power_cycle", "sleep">>, <<"power_cycle", "write">> >>
CycleTrace ==
    << WriteEntry("power_on", <<PowerGpio, 1>>), WriteEntry("power_off", <<PowerGpio, 0>>),
       WriteEntry("power_cycle", <<PowerGpio, 0>>), SleepEntry("power_cycle"),
       WriteEntry("power_cycle", <<PowerGpio, 1>>) >>

C3_CycleSequence ==
    (Len(trace) = Len(CycleSteps) /\ StepsOf(trace) = CycleSteps)
    => /\ trace = CycleTrace
       /\ AllIdle
       /\ last.op = "power_cycle" => last.res = Ok(None)

C3_Witness == trace = CycleTrace /\ last.op = "power_cycle" /\ is_ok(last.res)

\* C4: the power operations write the power line only, the reset button
\* operations write the reset line only, the power query writes nothing.
C4_LineFrame ==
    \A k \in 1..Len(trace) :
        /\ trace[k][1] # "power"
        /\ trace[k][2] = "write" =>
              /\ trace[k][1] \in {"power_on", "power_off", "power_cycle"} => trace[k][3] = PowerGpio
              /\ trace[k][1] \in {"reset_push", "reset_release"} => trace[k][3] = ResetGpio

C4_Witness ==
    /\ \E k \in 1..Len(trace) : trace[k] = WriteEntry("power_cycle", <<PowerGpio, 1>>)
    /\ \E k \in 1..Len(trace) : trace[k] = WriteEntry("power_off", <<PowerGpio, 0>>)
    /\ \E k \in 1..Len(trace) : trace[k] = WriteEntry("reset_push", <<ResetGpio, 1>>)

\* C5 as stated: a completed reset_pulse leaves the reset line reading 0, a
\* failed assert is returned with nothing released, and a release that fails
\* leaves the reset line asserted.
PulseReleased ==
    \A i \in 1..MaxTasks :
        (reset_pulse_resume(i) /\ is_ok(last'.res))
        => gpio_get_value(gpio', fault, ResetGpio) = Ok(0)
PulseAssertFailed ==
    \A name \in DeviceNames :
        (device_reset_pulse(name) /\ ~is_ok(reset_button_push(gpio).res))
        => /\ last'.res = reset_button_push(gpio).res
           /\ tasks' = tasks
           /\ trace' = trace
           /\ gpio' = gpio

C6_DriverExportContract ==
    [][\A line \in Lines :
          /\ (GpioGetValue(line) /\ ~gpio[line].exported)
             => (is_err(last'.res) /\ gpio' = gpio)
          /\ \A value \in {0, 1} :
                (GpioSetValue(line, value) /\ ~gpio[line].exported)
                => (is_err(last'.res) /\ gpio' = gpio)
          /\ (GpioGetValue(line) /\ last.op = "gpio_prepare_output" /\ is_ok(last.res)
                /\ last.arg[1] = line)
             => (is_ok(last'.res) /\ last'.res[2] = last.arg[2])]_vars

C6_Witness ==
    /\ prev.op = "gpio_prepare_output"
    /\ is_ok(prev.res)
    /\ prev.arg = <<PowerGpio, 1>>
    /\ last.op = "gpio_get_value"
    /\ last.arg[1] = PowerGpio
    /\ last.res = Ok(1)

\* C7: a request for a name that is not in the registry is answered 404 on
\* every device route, without a device operation, a GPIO write, a
\* suspended coroutine or a staged file.
UnknownRequest(name) ==
    \/ device_power(name)
    \/ device_power_off(name)
    \/ device_power_on(name)
    \/ device_power_cycle(name)
    \/ device_push_reset_button(name)
    \/ device_release_reset_button(name)
    \/ \E from_url \in Urls : device_flash(name, from_url)

C7_UnknownDevice404 ==
    [][\A name \in UnknownNames :
          UnknownRequest(name)
          => /\ last'.http = NotFound
             /\ last'.res = NotCalled
             /\ UNCHANGED <<gpio, staging, tasks, trace>>]_vars

C7_Witness ==
    /\ pc = "serving"
    /\ last.http = NotFound
    /\ last.arg \in UnknownNames
    /\ Len(trace) > 0

\* C8: serving is reached only after the device prepared, the interface was
\* configured and both helpers were launched; once one of these steps has
\* failed the process is over.
StartupFailed ==
    \/ \E k \in 1..Len(prepareCalls) : ~is_ok(prepareCalls[k])
    \/ is_err(iface_set_ip_result)
    \/ is_err(ser2net) \/ is_raise(ser2net)
    \/ is_err(dnsmasq_tftp) \/ is_raise(dnsmasq_tftp)

C8_StartupFatal ==
    /\ pc \in {"run", "serving"} =>
          /\ prepareCalls = <<Ok(None)>>
          /\ ~device_init_failed
          /\ is_ok(iface_set_ip_result)
          /\ is_ok(ser2net)
          /\ is_ok(dnsmasq_tftp)
    /\ StartupFailed => pc \in {"exited", "crashed"}

C8_Witness ==
    /\ pc = "exited"
    /\ prepareCalls = <<Ok(None)>>
    /\ is_ok(iface_set_ip_result)
    /\ is_ok(ser2net)
    /\ is_err(dnsmasq_tftp)

\* C9: starting a helper returns an outcome, a failure or the live handle,
\* and never throws.
C9_StartReturnsOutcome ==
    /\ ser2net # Unset => (is_ok(ser2net) \/ is_err(ser2net))
    /\ dnsmasq_tftp # Unset => (is_ok(dnsmasq_tftp) \/ is_err(dnsmasq_tftp))

\* C10: after a successful iface_set_static_ip the interface carries the
\* requested address and no other, whatever it carried before.
C10_ExactlyRequestedAddress ==
    (last.op = "iface_set_static_ip" /\ is_ok(last.res)) => addrs = {last.arg}

C10_Witness ==
    /\ prev.op = "iface_set_static_ip"
    /\ is_ok(prev.res)
    /\ last.op = "iface_set_static_ip"
    /\ is_ok(last.res)
    /\ prev.arg # last.arg
    /\ addrs = {last.arg}

\* C11: every operation of the capability set, called on the base Device,
\* returns the failure "not implemented", changes no GPIO line and does not
\* raise.
C11_BaseNotImplemented ==
    [][last'.op \in BaseOps \cup {"provision_firmware"}
       => (last'.res = Err(<<"not implemented">>) /\ gpio' = gpio)]_vars

\* C12: a tftp-file request for a known device answers "ok" only when the
\* downloaded bytes are in the staging directory under the device's file
\* name, whatever was there before; when the download fails it answers 500
\* and the staging directory is as it was.
C12_FlashStagesImage ==
    [][\A name \in DeviceNames, from_url \in FlashUrls :
          device_flash(name, from_url)
          => /\ last'.http = <<200, "ok">>
                => /\ is_ok(download_file(from_url))
                   /\ staging'[TftpFilename] = download_file(from_url)[2]
             /\ is_err(download_file(from_url))
                => /\ last'.http[1] = 500
                   /\ staging' = staging]_vars

C12_Witness ==
    /\ last.op = "tftp_file"
    /\ last.http = <<200, "ok">>
    /\ staging[TftpFilename] = "image2"

\* C13: requests for a device are not serialized.  While a power_cycle is
\* inside its sleep, a power_on or power_off request for the same device is
\* handled to its end in one step and leaves the sleeper asleep, and a
\* second power_cycle reaches its own sleep; a handler is never interrupted
\* anywhere else: the power_off write of a cycle is directly followed by
\* its sleep.
CycleSleeping == \E i \in 1..MaxTasks : tasks[i] = "power_cycle"
CycleOffThenSleep(t) ==
    \A k \in 1..Len(t) :
        t[k] = WriteEntry("power_cycle", <<PowerGpio, 0>>)
        => (k < Len(t) /\ t[k + 1] = SleepEntry("power_cycle"))

C13_NotSerialized ==
    [][/\ \A name \in DeviceNames :
             /\ (CycleSleeping /\ gpio[PowerGpio].exported /\ device_power_on(name))
                => /\ is_ok(last'.res)
                   /\ tasks' = tasks
                   /\ gpio_get_value(gpio', fault, PowerGpio) = Ok(1)
             /\ (CycleSleeping /\ gpio[PowerGpio].exported /\ device_power_off(name))
                => /\ is_ok(last'.res)
                   /\ tasks' = tasks
                   /\ gpio_get_value(gpio', fault, PowerGpio) = Ok(0)
             /\ (CycleSleeping /\ gpio[PowerGpio].exported /\ device_power_cycle(name))
                => /\ last'.res = Suspended
                   /\ Cardinality({i \in 1..MaxTasks : tasks'[i] = "power_cycle"}) =
                         Cardinality({i \in 1..MaxTasks : tasks[i] = "power_cycle"}) + 1
       /\ CycleOffThenSleep(trace')]_vars

C13_Witness ==
    /\ CycleSleeping
    /\ last.op = "power_on"
    /\ is_ok(last.res)
    /\ gpio_get_value(gpio, fault, PowerGpio) = Ok(1)
    /\ trace[Len(trace)] = WriteEntry("power_on", <<PowerGpio, 1>>)

\* C14: under fair scheduling every dispatched power_cycle returns: a
\* coroutine inside its sleep is eventually resumed and its handler then
\* answers with a success or a failure outcome, whatever other requests are
\* handled meanwhile; the same holds of a reset pulse.
Returned(i, op) ==
    /\ tasks[i] = "idle"
    /\ last.op = op
    /\ (is_ok(last.res) \/ is_err(last.res))

C14_EveryCycleReturns ==
    \A i \in 1..MaxTasks :
        /\ (tasks[i] = "power_cycle") ~> Returned(i, "power_cycle")
        /\ (tasks[i] = "reset_pulse") ~> Returned(i, "reset_pulse")

C14_Witness ==
    /\ AllIdle
    /\ last.op = "power_cycle"
    /\ is_ok(last.res)
    /\ \E k \in 1..Len(trace) :
          /\ trace[k] = SleepEntry("power_cycle")
          /\ k + 1 < Len(trace)
          /\ trace[k + 1][1] # "power_cycle"

\* C15: iface_set_static_ip resolves the interface, flushes, re-reads, adds
\* and re-reads: an absent interface gives the not-found failure with no
\* address touched, an address left after the flush gives a failure and the
\* requested address is not added, a caller without privilege gets the
\* failure that names the missing root rights, and success is returned only
\* with the requested address on the interface; every call returns an outcome.
FlushFailed(res) == is_err(res) /\ res[2][1] = "Failed to flush"

C15_ConfiguratorOutcomes ==
    [][last'.op = "iface_set_static_ip"
       => /\ is_ok(last'.res) \/ is_err(last'.res)
          /\ ~if_present
             => /\ is_err(last'.res)
                /\ last'.res[2][1] = "Iface not found"
                /\ addrs' = addrs
          /\ (if_present /\ ~privileged)
             => /\ is_err(last'.res)
                /\ last'.res[2][1] = "Root rights are necessary"
          /\ FlushFailed(last'.res) => (addrs' \subseteq addrs /\ addrs' # {})
          /\ is_ok(last'.res) => last'.arg \in addrs']_vars

\* C16: gpio_prepare_output fails when the export file is absent and leaves
\* sysfs as it was; a line that is not exported is exported by writing its
\* number to the export file, after which the call returns an outcome; a
\* direction that does not read back "out" fails before active_low is
\* written; success means the line is exported, is an output and reads back
\* the requested flag.
DirectionFailed(res) == is_err(res) /\ res[2][3] = "could not be set to output mode"

C16_PrepareSteps ==
    [][\A line \in Lines, active_low \in BOOLEAN :
          GpioPrepareOutput(line, active_low)
          => /\ ~export_file => (is_err(last'.res) /\ gpio' = gpio)
             /\ (export_file /\ ~gpio[line].exported)
                => /\ ExportContent(line) = <<"number", line>>
                   /\ is_ok(last'.res) \/ is_err(last'.res)
             /\ (is_err(last'.res) /\ Len(last'.res[2]) = 3 /\ DirectionFailed(last'.res))
                => gpio'[line].active_low = gpio[line].active_low
             /\ is_ok(last'.res)
                => /\ gpio'[line].exported
                   /\ gpio'[line].direction = "out"
                   /\ gpio'[line].active_low = BoolToFlag(active_low)
                   /\ ValueShow(gpio', fault, line) = IntToText(BoolToFlag(active_low))]_vars

\* C17: gpio_get_value returns a success or a failure outcome on every call,
\* also when the value file of the exported line does not hold an integer,
\* and the power query that reads the power line then answers 200 or a 500
\* carrying the driver's message.
C17_GetValueReturnsOutcome ==
    last.op = "gpio_get_value"
    => /\ is_ok(last.res) \/ is_err(last.res)
       /\ last.arg[1] = PowerGpio
          => LET r == is_powered_on(gpio, fault)
             IN /\ is_ok(r) \/ is_err(r)
                /\ is_err(r) => HttpOf(r, None) = <<500, r[2]>>

\* C18: start-up prepares the device, then configures the interface, then
\* launches ser2net, then dnsmasq, then serves; prepare is called exactly
\* once, whether that call succeeds or fails, and never after the prepare
\* loop.
StartupOrder ==
    /\ Len(prepareCalls) <= 1
    /\ pc = "prepare" => prepareCalls = <<>>
    /\ iface_set_ip_result # Unset => Len(prepareCalls) = 1
    /\ ser2net # Unset => iface_set_ip_result # Unset
    /\ dnsmasq_tftp # Unset => ser2net # Unset
    /\ pc = "serving" => dnsmasq_tftp # Unset

C18_PreparedExactlyOnce ==
    /\ []StartupOrder
    /\ [][pc # "prepare" => prepareCalls' = prepareCalls]_vars

\* C19: when a power_cycle returns success the power line reads 1 at that
\* instant, whatever other requests ran while it slept; and when only
\* power_cycle requests have been handled and each one that slept has made
\* its power_on write, the device is powered on once none is left asleep.
OnlyCycles(t) == t # <<>> /\ \A k \in 1..Len(t) : t[k][1] = "power_cycle"
CycleSleeps(t) == SelectSeq(t, LAMBDA e : e = SleepEntry("power_cycle"))
CycleOnWrites(t) == SelectSeq(t, LAMBDA e : e = WriteEntry("power_cycle", <<PowerGpio, 1>>))

C19_CycleReturnsPoweredOn ==
    /\ []((AllIdle /\ OnlyCycles(trace)
           /\ Len(CycleSleeps(trace)) = Len(CycleOnWrites(trace)))
          => gpio[PowerGpio].level = Xor(1, gpio[PowerGpio].active_low))
    /\ [][\A i \in 1..MaxTasks :
             (power_cycle_resume(i) /\ is_ok(last'.res))
             => gpio_get_value(gpio', fault, PowerGpio) = Ok(1)]_vars

C19_Witness ==
    /\ AllIdle
    /\ last.op = "power_cycle"
    /\ is_ok(last.res)
    /\ trace = <<WriteEntry("power_cycle", <<PowerGpio, 0>>), SleepEntry("power_cycle"),
                 WriteEntry("power_cycle", <<PowerGpio, 0>>), SleepEntry("power_cycle"),
                 WriteEntry("power_cycle", <<PowerGpio, 1>>),
                 WriteEntry("power_cycle", <<PowerGpio, 1>>)>>
    /\ gpio_get_value(gpio, fault, PowerGpio) = Ok(1)

\* C20: after a successful prepare and before any request has written a
\* line, is_powered_on answers true exactly when power_gpio_inverted is set,
\* and the reset line reads 1, the value reset_button_push writes, exactly
\* when reset_gpio_inverted is set; a power query made then answers "on"
\* exactly when power_gpio_inverted is set.
FreshlyPrepared ==
    /\ prepareCalls = <<Ok(None)>>
    /\ trace = <<>>
    /\ last.op \in {"none", "power"}

C20_PolarityAfterPrepare ==
    FreshlyPrepared
    => /\ is_ok(is_powered_on(gpio, fault))
       /\ is_powered_on(gpio, fault)[2] = power_gpio_inverted
       /\ is_ok(gpio_get_value(gpio, fault, ResetGpio))
       /\ (gpio_get_value(gpio, fault, ResetGpio)[2] = 1) = reset_gpio_inverted
       /\ reset_button_push(gpio).w = <<ResetGpio, 1>>
       /\ last.op = "power" => last.http = <<200, IF power_gpio_inverted THEN "on" ELSE "off">>

C20_Witness ==
    /\ pc = "serving"
    /\ FreshlyPrepared
    /\ power_gpio_inverted
    /\ reset_gpio_inverted
    /\ last.op = "power"
    /\ last.http = <<200, "on">>
    /\ gpio_get_value(gpio, fault, ResetGpio) = Ok(1)

====
